---- MODULE Spec2Model ----
(***************************************************************************)
(* Model of itk_dev_shared_components/kmd_nova/api.py: the NovaESDH        *)
(* client.  One facade object, a wall clock, the token endpoint and the    *)
(* data endpoints of KMD Nova.  Every public method is one action; the     *)
(* answers of the remote endpoints are the inputs of the action.           *)
(***************************************************************************)
EXTENDS Integers, Sequences, FiniteSets

(* ------------------------------ bounds -------------------------------- *)
\* the clock stops advancing past MaxTime (seconds)
MaxTime == 62
\* number of uuid4() draws in one behaviour
MaxUuid == 3
\* longest 'cases' / 'documents' array in a response body
MaxItems == 2
\* longest 'caseParties' array of one case
MaxParties == 2

(* -------------------------- program constants ------------------------- *)
\* timedelta(seconds=30) in get_bearer_token
MarginSeconds == 30

(* ------------------------------ inputs -------------------------------- *)
\* Python's None
None == "<None>"
\* seconds the clock may advance between two calls
TickSteps == {30, 31}
\* HTTP statuses the token endpoint answers with
TokenStatuses == {200, 401}
\* HTTP statuses a data endpoint answers with
DataStatuses == {200, 500}
\* 'access_token' values
Tokens == {"tokA", "tokB"}
\* 'expires_in' values
Lifetimes == {0, 30, 31}
\* answers of the token endpoint: a grant, or an error status without one
TokenResponses ==
    [status : {200}, access_token : Tokens, expires_in : Lifetimes]
    \cup [status : TokenStatuses \ {200}, access_token : {None}, expires_in : {0}]
\* answers of a data endpoint: a success with one of the bodies, or an error status
DataResponses(bodies) ==
    [status : {200}, body : bodies]
    \cup [status : DataStatuses \ {200}, body : {None}]
\* values of a search term of get_cases
Terms == {None, "", "x"}

VARIABLES
    now,                \* datetime.now(), in seconds
    constructed,        \* a NovaESDH object exists
    bearer_token,       \* self._bearer_token
    token_expiry_date,  \* self.token_expiry_date
    nextUuid,           \* number of uuid4() values drawn so far
    transactionIds,     \* correlation ids of all data requests sent, in order
    documentIds,        \* document ids generated by upload_document
    uploaded,           \* document ids returned by upload_document
    op,                 \* the method called last
    args,               \* its arguments
    sent,               \* the HTTP requests it sent, in order
    response,           \* body of the data response it received
    outcome,            \* "ok" or the exception it raised
    result              \* the value it returned

vars == <<now, constructed, bearer_token, token_expiry_date, nextUuid,
          transactionIds, documentIds, uploaded, op, args, sent, response,
          outcome, result>>

(* ------------------------------ helpers ------------------------------- *)
\* requests.Response.raise_for_status: HTTPError for 4xx and 5xx
raise_for_status(status) == status >= 400 /\ status < 600

\* dict.get(key, default)
Get(d, key, default) == IF key \in DOMAIN d THEN d[key] ELSE default

\* truth value of a str-or-None argument
Truthy(v) == v # None /\ v # ""

\* uuid.uuid4(): a value no earlier draw returned, given how many were drawn
uuid4(drawn) == drawn + 1

\* the POST to the token endpoint, with the answer resp it got
TokenRequest(resp) ==
    [kind |-> "token", endpoint |-> "openid-connect/token", transactionId |-> 0,
     uuid |-> 0, bearer |-> None, bearer_expiry |-> 0,
     status |-> resp.status, expires_in |-> resp.expires_in]

\* a request to a data endpoint: its correlation id, the document id in its
\* path or body (0: none), the bearer token of its Authorization header with
\* the expiry stored for that token, and the status it was answered with
DataRequest(endpoint, tid, uuid, token, expiry, status) ==
    [kind |-> "data", endpoint |-> endpoint, transactionId |-> tid,
     uuid |-> uuid, bearer |-> token, bearer_expiry |-> expiry,
     status |-> status, expires_in |-> 0]

\* some request of a call went to a data endpoint
DataSent(requests) == \E i \in 1..Len(requests) : requests[i].kind = "data"

(* --------------------------- token manager ---------------------------- *)
\* _get_new_token that takes the moment of the answer as the expiry
get_new_token_no_lifetime(resp, t) ==
    IF raise_for_status(resp.status)
    THEN [raised |-> TRUE, token |-> None, expiry |-> 0]
    ELSE [raised |-> FALSE, token |-> resp.access_token, expiry |-> t]

\* _get_new_token: one POST to the token endpoint, answered by resp at time t
get_new_token(resp, t) ==
    IF raise_for_status(resp.status)
    THEN [raised |-> TRUE, token |-> None, expiry |-> 0]
    ELSE [raised |-> FALSE, token |-> resp.access_token,
          expiry |-> t + resp.expires_in]

\* the condition of get_bearer_token under which a new token is requested
TokenIsStale(expiry, t) == expiry + MarginSeconds < t

\* get_bearer_token that drops the stored token when the refresh fails
get_bearer_token_clearing(token, expiry, t, resp) ==
    IF TokenIsStale(expiry, t)
    THEN LET new == get_new_token(resp, t) IN
         IF new.raised
         THEN [raised |-> TRUE, returned |-> None, token |-> None,
               expiry |-> expiry, requests |-> <<TokenRequest(resp)>>]
         ELSE [raised |-> FALSE, returned |-> new.token, token |-> new.token,
               expiry |-> new.expiry, requests |-> <<TokenRequest(resp)>>]
    ELSE [raised |-> FALSE, returned |-> token, token |-> token,
          expiry |-> expiry, requests |-> <<>>]

\* get_bearer_token on stored (token, expiry) at time t; resp answers the
\* token request if one is made
get_bearer_token(token, expiry, t, resp) ==
    IF TokenIsStale(expiry, t)
    THEN LET new == get_new_token(resp, t) IN
         IF new.raised
         THEN [raised |-> TRUE, returned |-> None, token |-> token,
               expiry |-> expiry, requests |-> <<TokenRequest(resp)>>]
         ELSE [raised |-> FALSE, returned |-> new.token, token |-> new.token,
               expiry |-> new.expiry, requests |-> <<TokenRequest(resp)>>]
    ELSE [raised |-> FALSE, returned |-> token, token |-> token,
          expiry |-> expiry, requests |-> <<>>]

\* the request sequence with one more attempt after an error status
AuthorizedRequestRetrying(endpoint, tid, uuid, tresp, dstatus) ==
    LET g == get_bearer_token(bearer_token, token_expiry_date, now, tresp)
        req == DataRequest(endpoint, tid, uuid, g.returned, g.expiry, dstatus)
    IN
    IF g.raised
    THEN [token |-> g.token, expiry |-> g.expiry, sent |-> g.requests,
          raised |-> TRUE]
    ELSE [token |-> g.token, expiry |-> g.expiry,
          sent |-> IF raise_for_status(dstatus)
                   THEN Append(Append(g.requests, req), req)
                   ELSE Append(g.requests, req),
          raised |-> raise_for_status(dstatus)]

\* headers = {... get_bearer_token()}; response = requests.X(...);
\* response.raise_for_status()
AuthorizedRequest(endpoint, tid, uuid, tresp, dstatus) ==
    LET g == get_bearer_token(bearer_token, token_expiry_date, now, tresp) IN
    IF g.raised
    THEN [token |-> g.token, expiry |-> g.expiry, sent |-> g.requests,
          raised |-> TRUE]
    ELSE [token |-> g.token, expiry |-> g.expiry,
          sent |-> Append(g.requests,
                          DataRequest(endpoint, tid, uuid, g.returned, g.expiry,
                                      dstatus)),
          raised |-> raise_for_status(dstatus)]

(* ------------------------------ actions ------------------------------- *)
Init ==
    /\ now = 0
    /\ constructed = FALSE
    /\ bearer_token = None
    /\ token_expiry_date = 0
    /\ nextUuid = 0
    /\ transactionIds = <<>>
    /\ documentIds = {}
    /\ uploaded = {}
    /\ op = "none"
    /\ args = <<>>
    /\ sent = <<>>
    /\ response = None
    /\ outcome = "none"
    /\ result = None

\* time passes between two calls
Tick(d) ==
    /\ now + d <= MaxTime
    /\ now' = now + d
    /\ UNCHANGED <<constructed, bearer_token, token_expiry_date, nextUuid,
                   transactionIds, documentIds, uploaded, op, args, sent,
                   response, outcome, result>>

\* NovaESDH.__init__
Construct(tresp) ==
    /\ ~constructed
    /\ LET new == get_new_token(tresp, now) IN
       /\ constructed' = ~new.raised
       /\ bearer_token' = IF new.raised THEN bearer_token ELSE new.token
       /\ token_expiry_date' = IF new.raised THEN token_expiry_date ELSE new.expiry
       /\ outcome' = IF new.raised THEN "HTTPError" ELSE "ok"
    /\ op' = "__init__"
    /\ args' = <<>>
    /\ sent' = <<TokenRequest(tresp)>>
    /\ response' = None
    /\ result' = None
    /\ UNCHANGED <<now, nextUuid, transactionIds, documentIds, uploaded>>

\* NovaESDH.get_address_by_cpr
get_address_by_cpr(cpr, tresp, dresp) ==
    /\ constructed
    /\ nextUuid + 1 <= MaxUuid
    /\ LET tid == uuid4(nextUuid)
           r == AuthorizedRequest("GetAddressByCpr", tid, 0, tresp, dresp.status)
       IN
       /\ nextUuid' = nextUuid + 1
       /\ bearer_token' = r.token
       /\ token_expiry_date' = r.expiry
       /\ sent' = r.sent
       /\ transactionIds' = IF DataSent(r.sent) THEN Append(transactionIds, tid)
                            ELSE transactionIds
       /\ outcome' = IF r.raised THEN "HTTPError" ELSE "ok"
       /\ response' = IF ~r.raised THEN dresp.body ELSE None
       /\ result' = IF r.raised THEN None ELSE dresp.body
    /\ op' = "get_address_by_cpr"
    /\ args' = <<cpr>>
    /\ UNCHANGED <<now, constructed, documentIds, uploaded>>

(* --------------------------- response mapper -------------------------- *)
\* keys read with party_dict[...] in get_cases
RequiredPartyKeys == {"identificationType", "identification", "partyRole"}

\* keys read with document_dict[...] in get_documents
RequiredDocumentKeys == {"documentUuid", "title", "sensitivity", "documentType",
                         "approved", "documentDate", "fileExtension"}

\* CaseParty(...) built from one element of 'caseParties'
CaseParty(party_dict) ==
    [identification_type |-> party_dict["identificationType"],
     identification |-> party_dict["identification"],
     role |-> party_dict["partyRole"],
     name |-> Get(party_dict, "name", None)]

\* the inner loop with parties.insert(0, party)
PartiesReversed(caseParties) ==
    [j \in 1..Len(caseParties) |->
        CaseParty(caseParties[Len(caseParties) + 1 - j])]

\* the inner loop of get_cases: parties.append(party) for each party_dict
Parties(caseParties) == [j \in 1..Len(caseParties) |-> CaseParty(caseParties[j])]

\* NovaCase(...) built from one element of 'cases'
NovaCase(case_dict) ==
    [uuid |-> case_dict["common"]["uuid"],
     title |-> case_dict["caseAttributes"]["title"],
     case_date |-> case_dict["caseAttributes"]["caseDate"],
     case_number |-> case_dict["caseAttributes"]["userFriendlyCaseNumber"],
     active_code |-> case_dict["state"]["activeCode"],
     progress_state |-> case_dict["state"]["progressState"],
     case_parties |-> Parties(case_dict["caseParties"])]

\* a subscript of the case loop raises KeyError
CaseKeyError(case_dict) ==
    \/ ~({"common", "caseAttributes", "state", "caseParties"} \subseteq DOMAIN case_dict)
    \/ "uuid" \notin DOMAIN case_dict["common"]
    \/ ~({"title", "caseDate", "userFriendlyCaseNumber"}
            \subseteq DOMAIN case_dict["caseAttributes"])
    \/ ~({"activeCode", "progressState"} \subseteq DOMAIN case_dict["state"])
    \/ \E j \in 1..Len(case_dict["caseParties"]) :
          ~(RequiredPartyKeys \subseteq DOMAIN case_dict["caseParties"][j])

\* the outer loop of get_cases over response.json()['cases']
MapCases(body) ==
    IF \E i \in 1..Len(body["cases"]) : CaseKeyError(body["cases"][i])
    THEN [raised |-> TRUE, value |-> None]
    ELSE [raised |-> FALSE,
          value |-> [i \in 1..Len(body["cases"]) |-> NovaCase(body["cases"][i])]]

\* NovaDocument(...) built from one element of 'documents'
NovaDocument(document_dict) ==
    [uuid |-> document_dict["documentUuid"],
     title |-> document_dict["title"],
     sensitivity |-> document_dict["sensitivity"],
     document_type |-> document_dict["documentType"],
     description |-> Get(document_dict, "description", None),
     approved |-> document_dict["approved"],
     document_date |-> document_dict["documentDate"],
     file_extension |-> document_dict["fileExtension"]]

\* a subscript of the document loop raises KeyError
DocumentKeyError(document_dict) ==
    ~(RequiredDocumentKeys \subseteq DOMAIN document_dict)

\* the loop that stops at the first element it cannot map and returns the rest
MapDocumentsPartial(body) ==
    LET ds == body["documents"]
        bad == {i \in 1..Len(ds) : DocumentKeyError(ds[i])}
        n == IF bad = {} THEN Len(ds)
             ELSE (CHOOSE i \in bad : \A k \in bad : i <= k) - 1
    IN [raised |-> FALSE, value |-> [i \in 1..n |-> NovaDocument(ds[i])]]

\* the loop of get_documents over response.json()['documents']
MapDocuments(body) ==
    IF \E i \in 1..Len(body["documents"]) : DocumentKeyError(body["documents"][i])
    THEN [raised |-> TRUE, value |-> None]
    ELSE [raised |-> FALSE,
          value |-> [i \in 1..Len(body["documents"]) |->
                        NovaDocument(body["documents"][i])]]

(* --------------------------- response bodies -------------------------- *)
\* all sequences over S of length at most n
SeqUpTo(S, n) == UNION {[1..k -> S] : k \in 0..n}

PartyNamed == [identificationType |-> "CprNummer", identification |-> "p1",
               partyRole |-> "PRI", name |-> "Ann"]
PartyNameless == [identificationType |-> "CprNummer", identification |-> "p2",
                  partyRole |-> "SEC"]
PartyRoleless == [identificationType |-> "CprNummer", identification |-> "p3",
                  name |-> "Bo"]
PartyDicts == {PartyNamed, PartyNameless, PartyRoleless}

CaseDict(u, parties) ==
    [common |-> [uuid |-> u],
     caseAttributes |-> [title |-> "t", caseDate |-> "2023-01-01",
                         userFriendlyCaseNumber |-> "S2023-61078"],
     state |-> [activeCode |-> "Active", progressState |-> "Opened"],
     caseParties |-> parties]
CaseDicts == {CaseDict(u, ps) : u \in {"c1", "c2"}, ps \in SeqUpTo(PartyDicts, MaxParties)}
\* bodies of a successful case search
CaseBodies == {[cases |-> cs] : cs \in SeqUpTo(CaseDicts, MaxItems)}
\* the bodies used where the mapping is not the subject
SomeCaseBodies == {[cases |-> <<>>],
                   [cases |-> <<CaseDict("c1", <<PartyNamed, PartyNameless>>)>>],
                   [cases |-> <<CaseDict("c2", <<PartyRoleless>>)>>]}

DocFull == [documentUuid |-> 101, title |-> "d", sensitivity |-> "Fortrolige",
            documentType |-> "Internt", description |-> "text", approved |-> TRUE,
            documentDate |-> "2023-01-01", fileExtension |-> "txt"]
DocNoDescription == [documentUuid |-> 102, title |-> "d", sensitivity |-> "Fortrolige",
                     documentType |-> "Internt", approved |-> TRUE,
                     documentDate |-> "2023-01-01", fileExtension |-> "txt"]
DocNoUuid == [title |-> "d", sensitivity |-> "Fortrolige",
              documentType |-> "Internt", description |-> "text", approved |-> TRUE,
              documentDate |-> "2023-01-01", fileExtension |-> "txt"]
DocNoTitle == [documentUuid |-> 103, sensitivity |-> "Fortrolige",
               documentType |-> "Internt", description |-> "text", approved |-> TRUE,
               documentDate |-> "2023-01-01", fileExtension |-> "txt"]
DocumentDicts == {DocFull, DocNoDescription, DocNoUuid, DocNoTitle}
\* bodies of a successful document list
DocumentBodies == {[documents |-> ds] : ds \in SeqUpTo(DocumentDicts, MaxItems)}
SomeDocumentBodies == {[documents |-> <<>>],
                       [documents |-> <<DocFull, DocNoDescription>>],
                       [documents |-> <<DocFull, DocNoUuid>>]}

(* ----------------------- actions: data operations --------------------- *)
\* the test "all three are None", which lets empty strings through
NoSearchTermsIsNone(cpr, case_number, case_title) ==
    cpr = None /\ case_number = None /\ case_title = None

\* not any((cpr, case_number, case_title))
NoSearchTerms(cpr, case_number, case_title) ==
    ~(Truthy(cpr) \/ Truthy(case_number) \/ Truthy(case_title))

\* NovaESDH.get_cases
get_cases(cpr, case_number, case_title, tresp, dresp) ==
    /\ constructed
    /\ op' = "get_cases"
    /\ args' = <<cpr, case_number, case_title>>
    /\ IF NoSearchTerms(cpr, case_number, case_title)
       THEN /\ outcome' = "ValueError"
            /\ sent' = <<>>
            /\ response' = None
            /\ result' = None
            /\ UNCHANGED <<bearer_token, token_expiry_date, nextUuid, transactionIds>>
       ELSE /\ nextUuid + 1 <= MaxUuid
            /\ LET tid == uuid4(nextUuid)
                   r == AuthorizedRequest("Case/GetList", tid, 0, tresp, dresp.status)
                   m == MapCases(dresp.body)
               IN
               /\ nextUuid' = nextUuid + 1
               /\ bearer_token' = r.token
               /\ token_expiry_date' = r.expiry
               /\ sent' = r.sent
               /\ transactionIds' = IF DataSent(r.sent) THEN Append(transactionIds, tid)
                                    ELSE transactionIds
               /\ outcome' = IF r.raised THEN "HTTPError"
                             ELSE IF m.raised THEN "KeyError" ELSE "ok"
               /\ response' = IF r.raised THEN None ELSE dresp.body
               /\ result' = IF r.raised THEN None ELSE m.value
    /\ UNCHANGED <<now, constructed, documentIds, uploaded>>

\* upload_document using one uuid4 value for both identifiers
UploadIdsShared(drawn) ==
    [transaction_id |-> uuid4(drawn), document_id |-> uuid4(drawn)]

\* transaction_id and document_id of upload_document, two draws of uuid4
UploadIds(drawn) ==
    [transaction_id |-> uuid4(drawn), document_id |-> uuid4(drawn + 1)]

\* upload_document returning the transaction id
UploadReturnTransaction(ids) == ids.transaction_id

\* the value upload_document returns
UploadReturn(ids) == ids.document_id

\* NovaESDH.upload_document
upload_document(document_path, fileExists, tresp, dresp) ==
    /\ constructed
    /\ nextUuid + 2 <= MaxUuid
    /\ LET ids == UploadIds(nextUuid)
           g == get_bearer_token(bearer_token, token_expiry_date, now, tresp)
           posted == ~g.raised /\ fileExists
       IN
       /\ nextUuid' = nextUuid + 2
       /\ documentIds' = documentIds \cup {ids.document_id}
       /\ bearer_token' = g.token
       /\ token_expiry_date' = g.expiry
       /\ sent' = IF posted
                  THEN Append(g.requests,
                              DataRequest("Document/UploadFile", ids.transaction_id,
                                          ids.document_id, g.returned, g.expiry,
                                          dresp.status))
                  ELSE g.requests
       /\ transactionIds' = IF posted THEN Append(transactionIds, ids.transaction_id)
                            ELSE transactionIds
       /\ outcome' = IF g.raised THEN "HTTPError"
                     ELSE IF ~fileExists THEN "FileNotFoundError"
                     ELSE IF raise_for_status(dresp.status) THEN "HTTPError" ELSE "ok"
       /\ result' = IF posted /\ ~raise_for_status(dresp.status)
                    THEN UploadReturn(ids) ELSE None
       /\ uploaded' = IF posted /\ ~raise_for_status(dresp.status)
                      THEN uploaded \cup {UploadReturn(ids)} ELSE uploaded
    /\ op' = "upload_document"
    /\ args' = <<document_path>>
    /\ response' = None
    /\ UNCHANGED <<now, constructed>>

\* NovaESDH.get_documents
get_documents(case_uuid, tresp, dresp) ==
    /\ constructed
    /\ nextUuid + 1 <= MaxUuid
    /\ LET tid == uuid4(nextUuid)
           r == AuthorizedRequest("Document/GetList", tid, 0, tresp, dresp.status)
           m == MapDocuments(dresp.body)
       IN
       /\ nextUuid' = nextUuid + 1
       /\ bearer_token' = r.token
       /\ token_expiry_date' = r.expiry
       /\ sent' = r.sent
       /\ transactionIds' = IF DataSent(r.sent) THEN Append(transactionIds, tid)
                            ELSE transactionIds
       /\ outcome' = IF r.raised THEN "HTTPError"
                     ELSE IF m.raised THEN "KeyError" ELSE "ok"
       /\ response' = IF r.raised THEN None ELSE dresp.body
       /\ result' = IF r.raised THEN None ELSE m.value
    /\ op' = "get_documents"
    /\ args' = <<case_uuid>>
    /\ UNCHANGED <<now, constructed, documentIds, uploaded>>

\* NovaESDH.download_document_file
download_document_file(document_uuid, checkout, checkout_comment, tresp, dresp) ==
    /\ constructed
    /\ nextUuid + 1 <= MaxUuid
    /\ LET tid == uuid4(nextUuid)
           r == AuthorizedRequest("Document/GetFile", tid, document_uuid, tresp, dresp.status)
       IN
       /\ nextUuid' = nextUuid + 1
       /\ bearer_token' = r.token
       /\ token_expiry_date' = r.expiry
       /\ sent' = r.sent
       /\ transactionIds' = IF DataSent(r.sent) THEN Append(transactionIds, tid)
                            ELSE transactionIds
       /\ outcome' = IF r.raised THEN "HTTPError" ELSE "ok"
       /\ response' = IF r.raised THEN None ELSE dresp.body
       /\ result' = IF r.raised THEN None ELSE dresp.body
    /\ op' = "download_document_file"
    /\ args' = <<document_uuid, checkout, checkout_comment>>
    /\ UNCHANGED <<now, constructed, documentIds, uploaded>>

\* NovaESDH.attach_document_to_case
attach_document_to_case(case_uuid, document, tresp, dresp) ==
    /\ constructed
    /\ nextUuid + 1 <= MaxUuid
    /\ LET tid == uuid4(nextUuid)
           r == AuthorizedRequest("Document/Import", tid, document.uuid, tresp, dresp.status)
       IN
       /\ nextUuid' = nextUuid + 1
       /\ bearer_token' = r.token
       /\ token_expiry_date' = r.expiry
       /\ sent' = r.sent
       /\ transactionIds' = IF DataSent(r.sent) THEN Append(transactionIds, tid)
                            ELSE transactionIds
       /\ outcome' = IF r.raised THEN "HTTPError" ELSE "ok"
    /\ op' = "attach_document_to_case"
    /\ args' = <<case_uuid, document>>
    /\ response' = None
    /\ result' = None
    /\ UNCHANGED <<now, constructed, documentIds, uploaded>>

\* the NovaDocument a caller builds around a document id
DocumentWith(id) ==
    [uuid |-> id, title |-> "d", sensitivity |-> "Fortrolige",
     document_type |-> "Internt", description |-> None, approved |-> TRUE,
     document_date |-> "2023-01-01", file_extension |-> "txt"]

\* the answers the token endpoint can give to the call that starts now: none
\* is awaited when get_bearer_token makes no request
TokenAnswers ==
    IF TokenIsStale(token_expiry_date, now) THEN TokenResponses
    ELSE {[status |-> 200, access_token |-> bearer_token, expires_in |-> 0]}

Next ==
    \/ \E d \in TickSteps : Tick(d)
    \/ \E tresp \in TokenResponses : Construct(tresp)
    \/ \E tresp \in TokenAnswers, dresp \in DataResponses({[street |-> "Main St"]}) :
          get_address_by_cpr("0101", tresp, dresp)
    \/ \E cpr \in Terms, cn \in {None, "S2023-61078"}, ct \in {None}, tresp \in TokenAnswers,
          dresp \in DataResponses(SomeCaseBodies) :
          get_cases(cpr, cn, ct, tresp, dresp)
    \/ \E fe \in BOOLEAN, tresp \in TokenAnswers, dresp \in DataResponses({None}) :
          upload_document("a.txt", fe, tresp, dresp)
    \/ \E tresp \in TokenAnswers, dresp \in DataResponses(SomeDocumentBodies) :
          get_documents("c1", tresp, dresp)
    \/ \E tresp \in TokenAnswers, dresp \in DataResponses({"bytes"}) :
          download_document_file(101, FALSE, None, tresp, dresp)
    \/ \E id \in uploaded \cup {101}, tresp \in TokenAnswers,
          dresp \in DataResponses({None}) :
          attach_document_to_case("c1", DocumentWith(id), tresp, dresp)

Spec == Init /\ [][Next]_vars

(* The response mapper on its own: a facade holding a fresh token makes    *)
(* one listing call, answered by any body of the bounded shape.            *)
InitMapper ==
    /\ now = 0
    /\ constructed = TRUE
    /\ bearer_token = "tokA"
    /\ token_expiry_date = 31
    /\ nextUuid = 0
    /\ transactionIds = <<>>
    /\ documentIds = {}
    /\ uploaded = {}
    /\ op = "__init__"
    /\ args = <<>>
    /\ sent = <<TokenRequest([status |-> 200, access_token |-> "tokA",
                               expires_in |-> 31])>>
    /\ response = None
    /\ outcome = "ok"
    /\ result = None

NextMapper ==
    \/ /\ op = "__init__"
       /\ \E dresp \in DataResponses(CaseBodies) :
             get_cases("x", None, None, CHOOSE t \in TokenAnswers : TRUE, dresp)
    \/ /\ op = "__init__"
       /\ \E dresp \in DataResponses(DocumentBodies) :
             get_documents("c1", CHOOSE t \in TokenAnswers : TRUE, dresp)

SpecMapper == InitMapper /\ [][NextMapper]_vars

(* ------------------------------ properties ---------------------------- *)
\* number of requests of one kind among the requests of a call
Count(requests, kind) ==
    Cardinality({i \in 1..Len(requests) : requests[i].kind = kind})

\* the token endpoint answered a request of the call with an error status
TokenFailed(requests) ==
    \E i \in 1..Len(requests) :
        requests[i].kind = "token" /\ requests[i].status >= 400

\* the last call was one of the six public operations
PublicCall == op \notin {"none", "__init__"}

\* a step in which a public operation reaches get_bearer_token: each of them
\* draws a correlation id first
CallStep == nextUuid' > nextUuid

\* a search term that is None or empty
Absent(v) == v = None \/ v = ""

\* C1: get_bearer_token called with the stored expiry more than 30 seconds
\* after now makes no token request and returns the stored token, which stays
\* stored; called with the expiry 30 seconds or less after now, or past, it
\* makes exactly one token request and returns the token now stored.
C1_RefreshWithin30 ==
    [][CallStep =>
        IF token_expiry_date > now + 30
        THEN /\ Count(sent', "token") = 0
             /\ bearer_token' = bearer_token
             /\ token_expiry_date' = token_expiry_date
             /\ \A i \in 1..Len(sent') :
                   sent'[i].kind = "data" => sent'[i].bearer = bearer_token
        ELSE /\ Count(sent', "token") = 1
             /\ \A i \in 1..Len(sent') :
                   sent'[i].kind = "data" => sent'[i].bearer = bearer_token'
      ]_vars

\* C2: every data request carries a bearer token whose stored expiry is
\* strictly later than the time at which get_bearer_token returned it.
C2_NoExpiredTokenSent ==
    [][CallStep =>
        \A i \in 1..Len(sent') :
            sent'[i].kind = "data" => sent'[i].bearer_expiry > now'
      ]_vars

\* C3: get_cases with cpr, case_number and case_title all None or empty
\* raises ValueError, sends no request at all and leaves the stored token,
\* the stored expiry and the uuid source untouched; with a non-empty term it
\* does not raise ValueError.
C3_NoTermsNoCalls ==
    /\ [](op = "get_cases" =>
            IF Absent(args[1]) /\ Absent(args[2]) /\ Absent(args[3])
            THEN outcome = "ValueError" /\ sent = <<>> /\ result = None
            ELSE outcome # "ValueError")
    /\ [][(op' = "get_cases" /\ outcome' = "ValueError") =>
            /\ bearer_token' = bearer_token
            /\ token_expiry_date' = token_expiry_date
            /\ transactionIds' = transactionIds
         ]_vars

\* a get_cases call without search terms was rejected while the stored token
\* was more than 30 seconds past its expiry, an empty string among the terms
C3_Witness ==
    /\ op = "get_cases"
    /\ outcome = "ValueError"
    /\ "" \in {args[1], args[2], args[3]}
    /\ TokenIsStale(token_expiry_date, now)

\* C4: when the token endpoint answers with an error status, __init__ fails
\* and no facade exists; a public operation whose refresh is so answered
\* raises, sends no data request, returns nothing and leaves both the stored
\* token and the stored expiry as they were before the call.
C4_FailedTokenKeepsState ==
    /\ []((op = "__init__" /\ TokenFailed(sent)) =>
            (outcome = "HTTPError" /\ ~constructed))
    /\ [][(CallStep /\ TokenFailed(sent')) =>
            /\ ~DataSent(sent')
            /\ outcome' = "HTTPError"
            /\ result' = None
            /\ bearer_token' = bearer_token
            /\ token_expiry_date' = token_expiry_date
         ]_vars

\* a public operation whose token refresh was answered with an error status
C4_Witness ==
    /\ PublicCall
    /\ TokenFailed(sent)
    /\ outcome = "HTTPError"

UploadReturnsPathId ==
    op = "upload_document" =>
        IF outcome = "ok"
        THEN /\ Count(sent, "data") = 1
             /\ \A i \in 1..Len(sent) :
                   sent[i].kind = "data" =>
                       /\ sent[i].status = 200
                       /\ sent[i].endpoint = "Document/UploadFile"
                       /\ sent[i].uuid = result
             /\ result \in uploaded
        ELSE result = None

\* the last call attached a document carrying an id upload_document returned
AttachOfUploaded ==
    /\ op = "attach_document_to_case"
    /\ args[2].uuid \in uploaded

\* the data requests of the last call are one attach request for that id
OneAttachRequest ==
    /\ Count(sent, "data") = 1
    /\ \A i \in 1..Len(sent) :
          sent[i].kind = "data" =>
              /\ sent[i].endpoint = "Document/Import"
              /\ sent[i].uuid = args[2].uuid

\* C6 as stated: upload_document returns the id of the path only on success,
\* and attaching a document carrying that id sends exactly one attach request
\* whose common.uuid is that id.
C6_AttachSendsExactlyOne ==
    /\ UploadReturnsPathId
    /\ AttachOfUploaded => OneAttachRequest

\* C6 amended: as above, but the attach call sends its one request unless the
\* token refresh inside it fails, and then it sends none.
C6_AttachSendsOneUnlessTokenFails ==
    /\ UploadReturnsPathId
    /\ AttachOfUploaded =>
          IF TokenFailed(sent) THEN Count(sent, "data") = 0
          ELSE OneAttachRequest

\* an uploaded document was attached with one request
C6_Witness ==
    /\ AttachOfUploaded
    /\ OneAttachRequest
    /\ outcome = "ok"

\* C7: for a successful case-search response of the documented shape,
\* get_cases returns one NovaCase per element of 'cases' in order, each with
\* one CaseParty per element of its 'caseParties' in order; identification
\* type, identification and role are copied, and name is the party's name or
\* None when the party has none.
C7_CasesMappedInOrder ==
    (op = "get_cases" /\ outcome \in {"ok", "KeyError"}) =>
        LET cs == response["cases"] IN
        (\A i \in 1..Len(cs) : \A j \in 1..Len(cs[i]["caseParties"]) :
            RequiredPartyKeys \subseteq DOMAIN cs[i]["caseParties"][j]) =>
            /\ outcome = "ok"
            /\ Len(result) = Len(cs)
            /\ \A i \in 1..Len(cs) :
                  LET ps == cs[i]["caseParties"] IN
                  /\ result[i].uuid = cs[i]["common"]["uuid"]
                  /\ Len(result[i].case_parties) = Len(ps)
                  /\ \A j \in 1..Len(ps) :
                        LET party == result[i].case_parties[j] IN
                        /\ party.identification_type = ps[j]["identificationType"]
                        /\ party.identification = ps[j]["identification"]
                        /\ party.role = ps[j]["partyRole"]
                        /\ party.name = IF "name" \in DOMAIN ps[j]
                                        THEN ps[j]["name"] ELSE None

\* two cases were returned, the first with a named party followed by a
\* nameless one
C7_Witness ==
    /\ op = "get_cases"
    /\ outcome = "ok"
    /\ Len(result) = 2
    /\ Len(result[1].case_parties) = 2
    /\ result[1].case_parties[1].name = "Ann"
    /\ result[1].case_parties[2].name = None
    /\ "name" \notin DOMAIN response["cases"][1]["caseParties"][2]

\* C8: for a successful document-list response, get_documents raises KeyError
\* and returns nothing when some element lacks a required field; otherwise it
\* returns one NovaDocument per element, with the element's identifier, and a
\* missing 'description' becomes None.
C8_MissingFieldFails ==
    (op = "get_documents" /\ outcome \in {"ok", "KeyError"}) =>
        LET ds == response["documents"] IN
        IF \E i \in 1..Len(ds) : ~(RequiredDocumentKeys \subseteq DOMAIN ds[i])
        THEN outcome = "KeyError" /\ result = None
        ELSE /\ outcome = "ok"
             /\ Len(result) = Len(ds)
             /\ \A i \in 1..Len(ds) :
                   /\ result[i].uuid = ds[i]["documentUuid"]
                   /\ result[i].description =
                         IF "description" \in DOMAIN ds[i]
                         THEN ds[i]["description"] ELSE None

\* a list whose second element has no 'documentUuid' was rejected
C8_Witness ==
    /\ op = "get_documents"
    /\ outcome = "KeyError"
    /\ Len(response["documents"]) = 2
    /\ "documentUuid" \in DOMAIN response["documents"][1]
    /\ "documentUuid" \notin DOMAIN response["documents"][2]

\* C9 as stated: a successfully constructed NovaESDH holds a token whose
\* stored expiry is strictly later than the time construction completed,
\* whatever 'expires_in' was.
C9_ExpiryInFuture ==
    [][(~constructed /\ constructed') => token_expiry_date' > now']_vars

\* C9 amended: the stored expiry is the construction time plus 'expires_in',
\* so it is strictly later than the construction time whenever 'expires_in'
\* is at least 1.
C9_ExpiryInFutureIfPositive ==
    [][(~constructed /\ constructed') =>
          /\ token_expiry_date' = now' + sent'[1].expires_in
          /\ sent'[1].expires_in >= 1 => token_expiry_date' > now'
      ]_vars

\* a facade was constructed from an answer with a positive lifetime
C9_Witness ==
    /\ op = "__init__"
    /\ outcome = "ok"
    /\ constructed
    /\ sent[1].expires_in >= 1
    /\ token_expiry_date = now + sent[1].expires_in

\* C10: no two data requests carry the same correlation id, no correlation
\* id is a generated document id, and the upload request's correlation id
\* differs from its document id.
C10_FreshCorrelationIds ==
    /\ \A i, j \in 1..Len(transactionIds) :
          i # j => transactionIds[i] # transactionIds[j]
    /\ \A i \in 1..Len(transactionIds) : transactionIds[i] \notin documentIds
    /\ \A i \in 1..Len(sent) :
          sent[i].kind = "data" =>
              /\ sent[i].transactionId = transactionIds[Len(transactionIds)]
              /\ sent[i].endpoint = "Document/UploadFile" =>
                     sent[i].transactionId # sent[i].uuid

\* an upload and another request were sent
C10_Witness ==
    /\ Len(transactionIds) >= 2
    /\ documentIds # {}
    /\ uploaded # {}
====
